---- MODULE Spec2Model ----
(***************************************************************************)
(* Model of package servconf (src/ghost/servconf/servconf.go): the         *)
(* ServerConfig value, its validating setters, its getters, the WebConfig  *)
(* projection and the constructor New with its lazily initialised global   *)
(* kubeconfig flag.                                                        *)
(*                                                                         *)
(* Strings are sequences of one-character strings, so that the regular     *)
(* expression, strings.ToLower and resource.ParseQuantity can be computed  *)
(* character by character.                                                 *)
(***************************************************************************)
EXTENDS Integers, Sequences, FiniteSets, TLC

VARIABLES
    cfg,        \* the ServerConfig the setters and getters are called on
    call,       \* the last completed call on cfg: its name and what it returned
    kubeconfig, \* the package variable kubeconfig (line 18): 0 for nil
    flags,      \* flag.CommandLine: the kubeconfig flag registered, parsed
    pc,         \* for each caller of New, the line it is about to execute
    args,       \* for each caller of New, the arguments of its call
    local,      \* for each caller of New, its local cfg (line 75)
    clients,    \* number of Clientsets kubernetes.NewForConfig has built
    builds,     \* number of clientcmd.BuildConfigFromFlags calls
    entered,    \* number of executions of the block of lines 78-83
    overlap,    \* history: a call of New began while another was running
    aborted     \* the process has ended in a panic or in os.Exit

vars == <<cfg, call, kubeconfig, flags, pc, args, local, clients, builds,
          entered, overlap, aborted>>

newVars == <<kubeconfig, flags, pc, args, local, clients, builds, entered,
             overlap, aborted>>

----------------------------------------------------------------------------
(* Bounds *)

\* longest identifier string enumerated exhaustively
MaxIdLen == 2
\* longest quantity string enumerated exhaustively
MaxQLen == 2
\* number of goroutines that call New
NumCallers == 2

----------------------------------------------------------------------------
(* Characters and strings *)

LowerChars == {"a", "b", "o"}
DigitChars == {"0", "2", "4"}

Max(S) == CHOOSE x \in S : \A y \in S : y <= x
Min(S) == CHOOSE x \in S : \A y \in S : x <= y

StringsUpTo(alphabet, n) == UNION {[1..k -> alphabet] : k \in 0..n}

\* the characters identifier arguments are enumerated over
IdAlphabet == {"a", "-", "A"}

\* longer identifier arguments tried besides the exhaustive ones
IdSamples ==
    { <<"0", "a">>, <<"a", "0">>, <<"_">>, <<"a", "_">>, <<"a", "-", "0">>,
      <<"a", "-", "-">>, <<"a", "-", "0", "-">>, <<"B", "o", "b", "!">> }

IdStrings == StringsUpTo(IdAlphabet, MaxIdLen) \cup IdSamples

----------------------------------------------------------------------------
(* regexp.MustCompile(`[a-z]([-a-z0-9]*[a-z0-9])?`).Find, bytes.Equal and   *)
(* strings.ToLower, as used by the three identity setters                   *)

\* a []byte: nil, or a slice holding bytes
NilBytes == [nil |-> TRUE, bytes |-> <<>>]
Bytes(s) == [nil |-> FALSE, bytes |-> s]

\* the character classes of the expression
IsFirst(c) == c \in LowerChars
IsMid(c) == c \in LowerChars \cup DigitChars \cup {"-"}
IsLast(c) == c \in LowerChars \cup DigitChars
\* mutant: the optional group is never taken (a lazy match)
MatchEndLazy(s, i) == i

\* last index of the match that starts at i: the greedy [-a-z0-9]* takes the
\* whole run after i and backs off to the last character [a-z0-9] can take;
\* when the optional group cannot match, the match is s[i] alone
MatchEnd(s, i) ==
    LET run == {k \in (i + 1)..Len(s) : \A j \in (i + 1)..k : IsMid(s[j])}
        ends == {k \in run : IsLast(s[k])}
    IN  IF ends = {} THEN i ELSE Max(ends)

\* exp.Find(b): the leftmost match, nil when there is none
Find(s) ==
    LET starts == {i \in 1..Len(s) : IsFirst(s[i])}
    IN  IF starts = {} THEN NilBytes
        ELSE Bytes(SubSeq(s, Min(starts), MatchEnd(s, Min(starts))))

\* bytes.Equal compares contents: a nil slice is equal to an empty one
BytesEqual(a, b) == a.bytes = b.bytes

LowerOf(c) ==
    CASE c = "A" -> "a"
      [] c = "B" -> "b"
      [] OTHER -> c

ToLower(s) == [i \in 1..Len(s) |-> LowerOf(s[i])]

----------------------------------------------------------------------------
(* ServerConfig *)

\* the zero value of resource.Quantity
ZeroQuantity == [value |-> 0, shift |-> 0, scale |-> 0, neg |-> FALSE, Format |-> ""]

\* &ServerConfig{} (line 75)
ZeroConfig ==
    [ username |-> <<>>, serverName |-> <<>>, serverType |-> <<>>,
      cpu |-> ZeroQuantity, ram |-> ZeroQuantity, disk |-> ZeroQuantity,
      ip |-> "", internalPort |-> 0, externalPort |-> 0, protocol |-> "",
      clientset |-> 0 ]

NilErr == "nil"
NoValue == "void"
ErrUsername == "username must contain only alphanumeric, lowercase characters"
ErrServerName == "servername must contain only alphanumeric, lowercase characters"
ErrServerType == "servertype must contain only alphanumeric, lowercase characters"
\* mutant: any match accepts the value (exp.Match instead of the comparison)
RejectedIfNoMatch(s) == Find(s).nil

\* the test of lines 106, 120 and 134
Rejected(s) == ~BytesEqual(Find(s), Bytes(s))

setUsernameOp(c, username) ==
    IF Rejected(username)
    THEN [cfg |-> c, err |-> ErrUsername]
    ELSE [cfg |-> [c EXCEPT !.username = ToLower(username)], err |-> NilErr]

setServerNameOp(c, serverName) ==
    IF Rejected(serverName)
    THEN [cfg |-> c, err |-> ErrServerName]
    ELSE [cfg |-> [c EXCEPT !.serverName = ToLower(serverName)], err |-> NilErr]

SetTypeOp(c, serverType) ==
    IF Rejected(serverType)
    THEN [cfg |-> c, err |-> ErrServerType]
    ELSE [cfg |-> [c EXCEPT !.serverType = ToLower(serverType)], err |-> NilErr]

GetUsername(c) == c.username
GetServerName(c) == c.serverName
GetServerType(c) == c.serverType

\* a completed call: its name, its return value, and whether its argument
\* was accepted (ok is history, not visible to the caller)
Done(op, ret, ok) == [op |-> op, ret |-> ret, ok |-> ok]

setUsername(username) ==
    LET r == setUsernameOp(cfg, username)
    IN  /\ cfg' = r.cfg
        /\ call' = Done("setUsername", r.err, r.err = NilErr)
        /\ UNCHANGED newVars

setServerName(serverName) ==
    LET r == setServerNameOp(cfg, serverName)
    IN  /\ cfg' = r.cfg
        /\ call' = Done("setServerName", r.err, r.err = NilErr)
        /\ UNCHANGED newVars

SetType(serverType) ==
    LET r == SetTypeOp(cfg, serverType)
    IN  /\ cfg' = r.cfg
        /\ call' = Done("SetType", r.err, r.err = NilErr)
        /\ UNCHANGED newVars

----------------------------------------------------------------------------
(* resource.ParseQuantity (k8s.io/apimachinery/pkg/api/resource), as called *)
(* on lines 179, 189 and 199.  A Quantity is kept as the library keeps it:  *)
(* an integer value with a decimal scale and a Format; a binary suffix      *)
(* multiplies the value by 2^shift, kept here as the pair (value, shift).   *)
(* Decimal points and exponents beyond the fast path are not enumerated.    *)

Digits == {"0", "1", "2", "3", "4", "5", "6", "7", "8", "9"}
SuffixChars == {"e", "E", "i", "n", "u", "m", "k", "K", "M", "G", "T", "P"}

DigitVal(c) ==
    CASE c = "0" -> 0 [] c = "1" -> 1 [] c = "2" -> 2 [] c = "3" -> 3
      [] c = "4" -> 4 [] c = "5" -> 5 [] c = "6" -> 6 [] c = "7" -> 7
      [] c = "8" -> 8 [] c = "9" -> 9

\* strconv.ParseInt of a string of digits
RECURSIVE DecValue(_)
DecValue(s) ==
    IF Len(s) = 0 THEN 0
    ELSE 10 * DecValue(SubSeq(s, 1, Len(s) - 1)) + DigitVal(s[Len(s)])

\* first index >= from whose character is not in class, Len(s) + 1 if none
SkipWhile(s, from, class) ==
    Min({i \in from..(Len(s) + 1) : i = Len(s) + 1 \/ s[i] \notin class})

\* parseQuantityString: the sign, the numerator and the suffix of str
parseQuantityString(str) ==
    LET signed == Len(str) > 0 /\ str[1] \in {"-", "+"}
        p0 == IF signed THEN 2 ELSE 1
        p1 == SkipWhile(str, p0, {"0"})
        p2 == SkipWhile(str, p1, Digits)
        num == IF p2 = p1 THEN <<"0">> ELSE SubSeq(str, p1, p2 - 1)
        p3 == SkipWhile(str, p2, SuffixChars)
        p4 == IF p3 <= Len(str) /\ str[p3] \in {"-", "+"} THEN p3 + 1 ELSE p3
        p5 == SkipWhile(str, p4, Digits)
    IN  [ positive |-> ~(Len(str) > 0 /\ str[1] = "-"),
          num |-> num,
          suffix |-> SubSeq(str, p2, Len(str)),
          err |-> IF p1 > Len(str) \/ p2 > Len(str) \/ p3 > Len(str) \/ p5 > Len(str)
                  THEN NilErr ELSE "ErrFormatWrong" ]

BinSuffixes == { <<"K", "i">>, <<"M", "i">>, <<"G", "i">>, <<"T", "i">>,
                 <<"P", "i">>, <<"E", "i">> }
DecSuffixes == { <<"n">>, <<"u">>, <<"m">>, <<>>, <<"k">>, <<"M">>, <<"G">>,
                 <<"T">>, <<"P">>, <<"E">> }

BinExponent(suf) ==
    CASE suf[1] = "K" -> 10 [] suf[1] = "M" -> 20 [] suf[1] = "G" -> 30
      [] suf[1] = "T" -> 40 [] suf[1] = "P" -> 50 [] suf[1] = "E" -> 60

DecExponent(suf) ==
    CASE suf = <<>> -> 0
      [] suf = <<"n">> -> -9 [] suf = <<"u">> -> -6 [] suf = <<"m">> -> -3
      [] suf = <<"k">> -> 3  [] suf = <<"M">> -> 6  [] suf = <<"G">> -> 9
      [] suf = <<"T">> -> 12 [] suf = <<"P">> -> 15 [] suf = <<"E">> -> 18

\* quantitySuffixer.interpret: the power of two, the power of ten and the
\* Format a suffix stands for
interpret(suf) ==
    IF suf \in BinSuffixes
    THEN [ok |-> TRUE, shift |-> BinExponent(suf), scale |-> 0, Format |-> "BinarySI"]
    ELSE IF suf \in DecSuffixes
    THEN [ok |-> TRUE, shift |-> 0, scale |-> DecExponent(suf), Format |-> "DecimalSI"]
    ELSE IF Len(suf) > 1 /\ suf[1] \in {"e", "E"}
    THEN LET rest == SubSeq(suf, 2, Len(suf))
             sgn == rest[1] \in {"-", "+"}
             digs == IF sgn THEN SubSeq(rest, 2, Len(rest)) ELSE rest
         IN  IF Len(digs) > 0 /\ \A i \in 1..Len(digs) : digs[i] \in Digits
             THEN [ ok |-> TRUE, shift |-> 0,
                    scale |-> IF rest[1] = "-" THEN 0 - DecValue(digs) ELSE DecValue(digs),
                    Format |-> "DecimalExponent" ]
             ELSE [ok |-> FALSE, shift |-> 0, scale |-> 0, Format |-> "DecimalExponent"]
    ELSE [ok |-> FALSE, shift |-> 0, scale |-> 0, Format |-> "DecimalExponent"]

Quantity(value, shift, scale, neg, format) ==
    [value |-> value, shift |-> shift, scale |-> scale, neg |-> neg, Format |-> format]

\* resource.ParseQuantity(str): the Quantity and the error
ParseQuantity(str) ==
    IF Len(str) = 0 THEN [q |-> ZeroQuantity, err |-> "ErrFormatWrong"]
    ELSE IF str = <<"0">> THEN [q |-> Quantity(0, 0, 0, FALSE, "DecimalSI"), err |-> NilErr]
    ELSE LET ps == parseQuantityString(str)
             in == interpret(ps.suffix)
             value == DecValue(ps.num)
         IN  IF ps.err # NilErr THEN [q |-> ZeroQuantity, err |-> ps.err]
             ELSE IF ~in.ok THEN [q |-> ZeroQuantity, err |-> "ErrSuffix"]
             ELSE [ q |-> Quantity(value, IF value = 0 THEN 0 ELSE in.shift, in.scale,
                                   ~ps.positive /\ value # 0, in.Format),
                    err |-> NilErr ]

Gi == <<"G", "i">>

\* lines 179-181, 189-191 and 199-201: the configuration after the call

\* mutant: the parsed value is also written to the ram field
SetCPUOpAlsoRAM(c, cpu) ==
    LET r == ParseQuantity(cpu)
    IN  IF r.err = NilErr THEN [c EXCEPT !.cpu = r.q, !.ram = r.q] ELSE c

SetCPUOp(c, cpu) ==
    LET r == ParseQuantity(cpu)
    IN  IF r.err = NilErr THEN [c EXCEPT !.cpu = r.q] ELSE c

\* mutant: the parsed value is stored whatever the error
SetRAMOpIgnoringErr(c, ram) ==
    LET r == ParseQuantity(ram \o Gi)
    IN  [c EXCEPT !.ram = r.q]

SetRAMOp(c, ram) ==
    LET r == ParseQuantity(ram \o Gi)
    IN  IF r.err = NilErr THEN [c EXCEPT !.ram = r.q] ELSE c

\* mutant: the unit suffix is not appended
SetDiskOpNoSuffix(c, disk) ==
    LET r == ParseQuantity(disk)
    IN  IF r.err = NilErr THEN [c EXCEPT !.disk = r.q] ELSE c

SetDiskOp(c, disk) ==
    LET r == ParseQuantity(disk \o Gi)
    IN  IF r.err = NilErr THEN [c EXCEPT !.disk = r.q] ELSE c

GetCPU(c) == c.cpu
GetRAM(c) == c.ram
GetDisk(c) == c.disk

\* whether the library parses str (history kept with the call: the setters
\* return nothing)
Parses(str) == ParseQuantity(str).err = NilErr

SetCPU(cpu) ==
    /\ cfg' = SetCPUOp(cfg, cpu)
    /\ call' = Done("SetCPU", NoValue, Parses(cpu))
    /\ UNCHANGED newVars

SetRAM(ram) ==
    /\ cfg' = SetRAMOp(cfg, ram)
    /\ call' = Done("SetRAM", NoValue, Parses(ram \o Gi))
    /\ UNCHANGED newVars

SetDisk(disk) ==
    /\ cfg' = SetDiskOp(cfg, disk)
    /\ call' = Done("SetDisk", NoValue, Parses(disk \o Gi))
    /\ UNCHANGED newVars

\* the characters quantity arguments are enumerated over
QAlphabet == {"2", "G"}

\* further quantity arguments tried besides the exhaustive ones
QSamples == { <<"x">>, <<"4">>, <<"1", "0">>, <<"-", "2">>, <<"2", "G", "i">> }

QStrings == StringsUpTo(QAlphabet, MaxQLen) \cup QSamples

----------------------------------------------------------------------------
(* The unvalidated setters, the remaining getters and WebConfig *)

SetInternalPortOp(c, port) == [c EXCEPT !.internalPort = port]
SetExternalPortOp(c, port) == [c EXCEPT !.externalPort = port]
SetIPOp(c, ip) == [c EXCEPT !.ip = ip]
SetProtocolOp(c, protocol) == [c EXCEPT !.protocol = protocol]

GetInternalPort(c) == c.internalPort
GetExternalPort(c) == c.externalPort
GetIP(c) == c.ip
GetProtocol(c) == c.protocol
GetKubeConfig(c) == c.clientset

SetInternalPort(port) ==
    /\ cfg' = SetInternalPortOp(cfg, port)
    /\ call' = Done("SetInternalPort", NoValue, TRUE)
    /\ UNCHANGED newVars

SetExternalPort(port) ==
    /\ cfg' = SetExternalPortOp(cfg, port)
    /\ call' = Done("SetExternalPort", NoValue, TRUE)
    /\ UNCHANGED newVars

SetIP(ip) ==
    /\ cfg' = SetIPOp(cfg, ip)
    /\ call' = Done("SetIP", NoValue, TRUE)
    /\ UNCHANGED newVars

SetProtocol(protocol) ==
    /\ cfg' = SetProtocolOp(cfg, protocol)
    /\ call' = Done("SetProtocol", NoValue, TRUE)
    /\ UNCHANGED newVars

\* resource.Quantity.OpenAPISchemaFormat (k8s.io/apimachinery): the format
\* name the OpenAPI generator gives the type, the empty string for every
\* Quantity; it does not read its receiver
OpenAPISchemaFormat(q) == <<>>

\* lines 208-221
WebConfigOf(c) ==
    [ Username |-> GetUsername(c),
      ServerName |-> GetServerName(c),
      ServerType |-> GetServerType(c),
      CPU |-> OpenAPISchemaFormat(GetCPU(c)),
      RAM |-> OpenAPISchemaFormat(GetRAM(c)),
      Disk |-> OpenAPISchemaFormat(GetRAM(c)),
      IP |-> GetIP(c),
      InternalPort |-> GetInternalPort(c),
      ExternalPort |-> GetExternalPort(c) ]

\* a call that returns a value and assigns nothing
Returns(op, value) ==
    /\ call' = Done(op, value, TRUE)
    /\ UNCHANGED <<cfg, newVars>>

CallGetUsername == Returns("GetUsername", GetUsername(cfg))
CallGetServerName == Returns("GetServerName", GetServerName(cfg))
CallGetServerType == Returns("GetServerType", GetServerType(cfg))
CallGetInternalPort == Returns("GetInternalPort", GetInternalPort(cfg))
CallGetExternalPort == Returns("GetExternalPort", GetExternalPort(cfg))
CallGetIP == Returns("GetIP", GetIP(cfg))
CallGetProtocol == Returns("GetProtocol", GetProtocol(cfg))
CallGetCPU == Returns("GetCPU", GetCPU(cfg))
CallGetRAM == Returns("GetRAM", GetRAM(cfg))
CallGetDisk == Returns("GetDisk", GetDisk(cfg))
CallGetKubeConfig == Returns("GetKubeConfig", GetKubeConfig(cfg))
CallWebConfig == Returns("WebConfig", WebConfigOf(cfg))

----------------------------------------------------------------------------
(* New (lines 74-98), one action per step that reads or writes the package  *)
(* variable kubeconfig or flag.CommandLine, so that calls from several      *)
(* goroutines interleave as the code lets them.  kubeconfig is 0 for nil    *)
(* and otherwise the number of the flag.String call whose pointer it holds. *)
(* The home directory only selects the default of the flag (lines 78-82).   *)

Callers == 1..NumCallers

\* the names New is called with
NewNames == { <<"a", "-", "0">>, <<"B", "o", "b", "!">> }

NoArgs == [username |-> <<>>, serverName |-> <<>>]

Running(p) == pc[p] \notin {"idle", "done", "panic"}

InitNew ==
    /\ kubeconfig = 0
    /\ flags = [registered |-> FALSE, parsed |-> FALSE, nReg |-> 0, nParse |-> 0]
    /\ pc = [p \in Callers |-> "idle"]
    /\ args = [p \in Callers |-> NoArgs]
    /\ local = [p \in Callers |-> ZeroConfig]
    /\ clients = 0
    /\ builds = 0
    /\ entered = 0
    /\ overlap = FALSE
    /\ aborted = FALSE

\* the call and line 75: cfg := &ServerConfig{}
NewCall(p, username, serverName) ==
    /\ ~aborted
    /\ pc[p] = "idle"
    /\ pc' = [pc EXCEPT ![p] = "L77"]
    /\ args' = [args EXCEPT ![p] = [username |-> username, serverName |-> serverName]]
    /\ local' = [local EXCEPT ![p] = ZeroConfig]
    /\ overlap' = (overlap \/ \E q \in Callers \ {p} : Running(q))
    /\ UNCHANGED <<cfg, call, kubeconfig, flags, clients, builds, entered, aborted>>
\* mutant: the test is inverted
KubeconfigIsNotNil(k) == k # 0

\* mutant: the block runs on every call
KubeconfigUntested(k) == TRUE

\* line 77: if kubeconfig == nil
KubeconfigIsNil(k) == k = 0

NewCheck(p) ==
    /\ ~aborted
    /\ pc[p] = "L77"
    /\ IF KubeconfigIsNil(kubeconfig)
       THEN /\ pc' = [pc EXCEPT ![p] = "L79"]
            /\ entered' = entered + 1
       ELSE /\ pc' = [pc EXCEPT ![p] = "L85"]
            /\ UNCHANGED entered
    /\ UNCHANGED <<cfg, call, kubeconfig, flags, args, local, clients, builds,
                   overlap, aborted>>

\* lines 78-82: kubeconfig = flag.String("kubeconfig", ...).  flag.String
\* panics when the name is already registered; when this call overlaps
\* another one, its unsynchronised read of the flag set may also miss the
\* other call's registration, and then it registers the name again
NewRegister(p) ==
    /\ ~aborted
    /\ pc[p] = "L79"
    /\ \/ /\ ~flags.registered \/ overlap
          /\ flags' = [flags EXCEPT !.registered = TRUE, !.nReg = @ + 1]
          /\ kubeconfig' = flags.nReg + 1
          /\ pc' = [pc EXCEPT ![p] = "L83"]
          /\ UNCHANGED aborted
       \/ /\ flags.registered
          /\ pc' = [pc EXCEPT ![p] = "panic"]
          /\ aborted' = TRUE
          /\ UNCHANGED <<flags, kubeconfig>>
    /\ UNCHANGED <<cfg, call, args, local, clients, builds, entered, overlap>>

\* line 83: flag.Parse(), which ends the process (os.Exit) when the command
\* line does not parse
NewParse(p) ==
    /\ ~aborted
    /\ pc[p] = "L83"
    /\ \/ /\ flags' = [flags EXCEPT !.parsed = TRUE, !.nParse = @ + 1]
          /\ pc' = [pc EXCEPT ![p] = "L85"]
          /\ UNCHANGED aborted
       \/ /\ flags' = [flags EXCEPT !.nParse = @ + 1]
          /\ pc' = [pc EXCEPT ![p] = "panic"]
          /\ aborted' = TRUE
    /\ UNCHANGED <<cfg, call, kubeconfig, args, local, clients, builds, entered,
                   overlap>>

\* lines 85-92: clientcmd.BuildConfigFromFlags and kubernetes.NewForConfig;
\* when either returns an error New panics and no Clientset is stored;
\* otherwise NewForConfig returns a pointer to a Clientset it has allocated
NewBuild(p) ==
    /\ ~aborted
    /\ pc[p] = "L85"
    /\ builds' = builds + 1
    /\ \/ /\ clients' = clients + 1
          /\ local' = [local EXCEPT ![p].clientset = clients + 1]
          /\ pc' = [pc EXCEPT ![p] = "L94"]
          /\ UNCHANGED aborted
       \/ /\ pc' = [pc EXCEPT ![p] = "panic"]
          /\ aborted' = TRUE
          /\ UNCHANGED <<clients, local>>
    /\ UNCHANGED <<cfg, call, kubeconfig, flags, args, entered, overlap>>
\* mutant: a rejected username ends the initialisation of the fields
NewSetFieldsStopOnError(c, username, serverName) ==
    IF setUsernameOp(c, username).err # NilErr THEN c
    ELSE setServerNameOp(setUsernameOp(c, username).cfg, serverName).cfg

\* lines 94-95: both setters are called and their errors are dropped
NewSetFields(c, username, serverName) ==
    setServerNameOp(setUsernameOp(c, username).cfg, serverName).cfg

\* lines 94-97
NewReturn(p) ==
    /\ ~aborted
    /\ pc[p] = "L94"
    /\ local' = [local EXCEPT ![p] =
                    NewSetFields(local[p], args[p].username, args[p].serverName)]
    /\ pc' = [pc EXCEPT ![p] = "done"]
    /\ UNCHANGED <<cfg, call, kubeconfig, flags, args, clients, builds, entered,
                   overlap, aborted>>

InitNewSpec ==
    /\ cfg = ZeroConfig
    /\ call = Done("none", NoValue, TRUE)
    /\ InitNew

NextNew ==
    \/ \E p \in Callers : \E u \in NewNames, s \in NewNames : NewCall(p, u, s)
    \/ \E p \in Callers : NewCheck(p)
    \/ \E p \in Callers : NewRegister(p)
    \/ \E p \in Callers : NewParse(p)
    \/ \E p \in Callers : NewBuild(p)
    \/ \E p \in Callers : NewReturn(p)

SpecNew == InitNewSpec /\ [][NextNew]_vars

----------------------------------------------------------------------------
(* One configuration in use: the states in which the first call of New in   *)
(* the process, made by caller 1, has returned it                           *)

AfterNew(username, serverName) ==
    /\ kubeconfig = 1
    /\ flags = [registered |-> TRUE, parsed |-> TRUE, nReg |-> 1, nParse |-> 1]
    /\ pc = [p \in Callers |-> IF p = 1 THEN "done" ELSE "idle"]
    /\ args = [p \in Callers |->
                 IF p = 1 THEN [username |-> username, serverName |-> serverName]
                 ELSE NoArgs]
    /\ local = [p \in Callers |->
                  IF p = 1
                  THEN NewSetFields([ZeroConfig EXCEPT !.clientset = 1],
                                    username, serverName)
                  ELSE ZeroConfig]
    /\ clients = 1
    /\ builds = 1
    /\ entered = 1
    /\ overlap = FALSE
    /\ aborted = FALSE
    /\ cfg = local[1]
    /\ call = Done("New", NoValue, TRUE)

----------------------------------------------------------------------------
(* The identity setters called on one configuration, from inside the package *)

InitIdent == AfterNew(<<"B", "o", "b", "!">>, <<"a", "-", "0">>)

NextIdent ==
    \/ \E s \in IdStrings : setUsername(s)
    \/ \E s \in IdStrings : setServerName(s)
    \/ \E s \in IdStrings : SetType(s)

SpecIdent == InitIdent /\ [][NextIdent]_vars

----------------------------------------------------------------------------
(* The quantity setters called on one configuration *)

NextQty ==
    \/ \E v \in QStrings : SetCPU(v)
    \/ \E v \in QStrings : SetRAM(v)
    \/ \E v \in QStrings : SetDisk(v)

SpecQty == InitIdent /\ [][NextQty]_vars

----------------------------------------------------------------------------
(* The exported methods called on one configuration that New has returned *)

\* arguments of the exported setters
TypeArgs == { <<"a", "b">>, <<>>, <<"B", "o", "b", "!">>, <<"a", "_">>, <<"-", "a">> }
CPUArgs == { <<"2">>, <<"x">> }
QuantityArgs == { <<"2">>, <<"4">>, <<"x">> }
IPArgs == { "not an address" }
PortArgs == { -1 }
ProtocolArgs == { "bogus" }

Init == \E u \in NewNames, s \in NewNames : AfterNew(u, s)

Next ==
    \/ \E s \in TypeArgs : SetType(s)
    \/ \E v \in CPUArgs : SetCPU(v)
    \/ \E v \in QuantityArgs : SetRAM(v)
    \/ \E v \in QuantityArgs : SetDisk(v)
    \/ \E ip \in IPArgs : SetIP(ip)
    \/ \E port \in PortArgs : SetInternalPort(port)
    \/ \E port \in PortArgs : SetExternalPort(port)
    \/ \E protocol \in ProtocolArgs : SetProtocol(protocol)
    \/ CallGetUsername
    \/ CallGetServerName
    \/ CallGetServerType
    \/ CallGetInternalPort
    \/ CallGetExternalPort
    \/ CallGetIP
    \/ CallGetProtocol
    \/ CallGetCPU
    \/ CallGetRAM
    \/ CallGetDisk
    \/ CallGetKubeConfig
    \/ CallWebConfig

Spec == Init /\ [][Next]_vars

----------------------------------------------------------------------------
(* Properties *)

\* the anchored pattern ^[a-z]([-a-z0-9]*[a-z0-9])?$
MatchesPattern(s) ==
    /\ Len(s) >= 1
    /\ s[1] \in LowerChars
    /\ \A i \in 2..Len(s) : s[i] \in LowerChars \cup DigitChars \cup {"-"}
    /\ s[Len(s)] \in LowerChars \cup DigitChars

\* C1: an identity setter called with a string that does not match the
\* anchored pattern (the empty string included) returns an error and leaves
\* its field as it was before the call.
C1_RejectedValueLeavesField ==
    [][\A s \in IdStrings : ~MatchesPattern(s) =>
          /\ (call'.op = "setUsername" /\ setUsername(s)) =>
                call'.ret # NilErr /\ GetUsername(cfg') = GetUsername(cfg)
          /\ (call'.op = "setServerName" /\ setServerName(s)) =>
                call'.ret # NilErr /\ GetServerName(cfg') = GetServerName(cfg)
          /\ (call'.op = "SetType" /\ SetType(s)) =>
                call'.ret # NilErr /\ GetServerType(cfg') = GetServerType(cfg)]_vars

\* C2: an identity setter called with a string s that matches the anchored
\* pattern returns no error, and the matching getter then returns exactly s,
\* whatever the field held before.
C2_AcceptedValueIsStored ==
    [][\A s \in IdStrings : MatchesPattern(s) =>
          /\ (call'.op = "setUsername" /\ setUsername(s)) =>
                call'.ret = NilErr /\ GetUsername(cfg') = s
          /\ (call'.op = "setServerName" /\ setServerName(s)) =>
                call'.ret = NilErr /\ GetServerName(cfg') = s
          /\ (call'.op = "SetType" /\ SetType(s)) =>
                call'.ret = NilErr /\ GetServerType(cfg') = s]_vars

\* a matching value has replaced another one in each of the three fields
C2_Witness ==
    /\ call.op = "SetType" /\ call.ret = NilErr
    /\ GetServerType(cfg) = <<"a", "-", "0">>
    /\ GetUsername(cfg) = <<"a", "0">>
    /\ GetServerName(cfg) = <<"a", "a">>

\* digits of a natural number, as strconv formats it
RECURSIVE Itoa(_)
Itoa(n) ==
    LET d == <<"0", "1", "2", "3", "4", "5", "6", "7", "8", "9">>[(n % 10) + 1]
    IN  IF n < 10 THEN <<d>> ELSE Itoa(n \div 10) \o <<d>>

\* the string form of a Quantity whose value has no trailing zeros to fold
\* into the suffix: sign, digits and the suffix of its scale
QuantityString(q) ==
    LET suffix ==
            CASE q.value = 0 -> <<>>
              [] q.Format = "BinarySI" /\ q.shift = 10 -> <<"K", "i">>
              [] q.Format = "BinarySI" /\ q.shift = 20 -> <<"M", "i">>
              [] q.Format = "BinarySI" /\ q.shift = 30 -> <<"G", "i">>
              [] q.scale = -3 -> <<"m">>
              [] q.scale = 3 -> <<"k">>
              [] q.scale = 6 -> <<"M">>
              [] q.scale = 9 -> <<"G">>
              [] OTHER -> <<>>
    IN  (IF q.neg THEN <<"-">> ELSE <<>>) \o Itoa(q.value) \o suffix

\* every field of the configuration holds a valid value that a call has set
AllFieldsSet ==
    /\ MatchesPattern(cfg.username) /\ MatchesPattern(cfg.serverName)
    /\ MatchesPattern(cfg.serverType)
    /\ cfg.cpu # ZeroQuantity /\ cfg.ram # ZeroQuantity /\ cfg.disk # ZeroQuantity
    /\ cfg.ip # "" /\ cfg.internalPort # 0 /\ cfg.externalPort # 0
    /\ cfg.protocol # ""

\* C3: once every field has been set to a valid value, WebConfig() returns a
\* view whose fields echo the stored values: the identity fields, IP and the
\* ports equal the getters' results, and CPU, RAM and Disk are the string
\* forms of GetCPU(), GetRAM() and GetDisk(), Disk being the disk quantity.
C3_ViewEchoesEveryField ==
    (call.op = "WebConfig" /\ AllFieldsSet) =>
        /\ call.ret.Username = GetUsername(cfg)
        /\ call.ret.ServerName = GetServerName(cfg)
        /\ call.ret.ServerType = GetServerType(cfg)
        /\ call.ret.IP = GetIP(cfg)
        /\ call.ret.InternalPort = GetInternalPort(cfg)
        /\ call.ret.ExternalPort = GetExternalPort(cfg)
        /\ call.ret.CPU = QuantityString(GetCPU(cfg))
        /\ call.ret.RAM = QuantityString(GetRAM(cfg))
        /\ call.ret.Disk = QuantityString(GetDisk(cfg))

\* what New leaves in an identity field it was given name for
FieldAfterNew(name) == IF MatchesPattern(name) THEN name ELSE <<>>

\* C4: once the client is built, New returns a configuration whatever the
\* names are: a name that fails the pattern leaves its field empty, a name
\* that matches is stored, and neither outcome depends on the other name.
C4_NewDropsValidationErrors ==
    [][\A p \in Callers : (pc[p] = "L94" /\ pc'[p] # "L94") =>
          /\ pc'[p] = "done"
          /\ ~aborted'
          /\ GetUsername(local'[p]) = FieldAfterNew(args[p].username)
          /\ GetServerName(local'[p]) = FieldAfterNew(args[p].serverName)
          /\ GetKubeConfig(local'[p]) = GetKubeConfig(local[p])]_vars

\* New("Bob!", "a-0") has returned: no username, the server name stored
C4_Witness ==
    \E p \in Callers :
        /\ pc[p] = "done"
        /\ args[p].username = <<"B", "o", "b", "!">>
        /\ args[p].serverName = <<"a", "-", "0">>
        /\ GetUsername(local[p]) = <<>>
        /\ GetServerName(local[p]) = <<"a", "-", "0">>

\* the callers whose New has built its client (line 92 passed)
Built == {p \in Callers : pc[p] \in {"L94", "done"}}
Returned == {p \in Callers : pc[p] = "done"}

C6_FailedParseChangesNothing ==
    [][/\ (call'.op = "SetCPU" /\ ~call'.ok) =>
             GetCPU(cfg') = GetCPU(cfg) /\ call'.ret = NoValue /\ ~aborted'
       /\ (call'.op = "SetRAM" /\ ~call'.ok) =>
             GetRAM(cfg') = GetRAM(cfg) /\ call'.ret = NoValue /\ ~aborted'
       /\ (call'.op = "SetDisk" /\ ~call'.ok) =>
             GetDisk(cfg') = GetDisk(cfg) /\ call'.ret = NoValue /\ ~aborted']_vars

\* a SetRAM whose argument did not parse, on a configuration whose three
\* quantities had been set
C6_Witness ==
    /\ call.op = "SetRAM" /\ ~call.ok
    /\ GetRAM(cfg) # ZeroQuantity
    /\ GetCPU(cfg) # ZeroQuantity
    /\ GetDisk(cfg) # ZeroQuantity

\* the strings of decimal digits among the arguments
Numerals == {v \in QStrings : Len(v) >= 1 /\ \A i \in 1..Len(v) : v[i] \in Digits}

\* n with no unit, and n gibibytes
Cores(n) == Quantity(n, 0, 0, FALSE, "DecimalSI")
Gibibytes(n) == Quantity(n, IF n = 0 THEN 0 ELSE 30, 0, FALSE, "BinarySI")

InBlock == {"L79", "L83"}

\* C8: nothing orders the test of line 77 and the assignment of lines 79-81
\* of two calls of New: every call that reads kubeconfig as nil enters the
\* block, and only such a call does, so that the block, which runs once when
\* the calls do not overlap, runs twice when two overlapping calls both read
\* nil (the witness).
C8_EveryNilReaderInitialises ==
    [][/\ \A p \in Callers : (pc[p] = "L77" /\ pc'[p] # "L77") =>
             /\ (kubeconfig = 0) <=> (pc'[p] = "L79")
             /\ entered' = entered + (IF kubeconfig = 0 THEN 1 ELSE 0)
       /\ (\A p \in Callers : pc[p] = "L77" => pc'[p] = "L77") => entered' = entered
       /\ ~overlap' => entered' <= 1]_vars

\* two calls are inside the block at once
C8_Witness ==
    /\ entered = 2
    /\ \E p, q \in Callers : p # q /\ pc[p] \in InBlock /\ pc[q] \in InBlock

\* C9: each identity field is empty or matches the anchored pattern.
C9_IdentityFieldsWellFormed ==
    /\ cfg.username = <<>> \/ MatchesPattern(cfg.username)
    /\ cfg.serverName = <<>> \/ MatchesPattern(cfg.serverName)
    /\ cfg.serverType = <<>> \/ MatchesPattern(cfg.serverType)

\* the three fields hold values and the last setter call was rejected
C9_Witness ==
    /\ call.op = "SetType" /\ call.ret = ErrServerType
    /\ cfg.username # <<>> /\ cfg.serverName # <<>> /\ cfg.serverType # <<>>

Fields == DOMAIN ZeroConfig

OnlyChanges(f) == \A g \in Fields \ {f} : cfg'[g] = cfg[g]

Getters == { "GetUsername", "GetServerName", "GetServerType", "GetInternalPort",
             "GetExternalPort", "GetIP", "GetProtocol", "GetCPU", "GetRAM",
             "GetDisk", "GetKubeConfig" }

\* C10: an exported setter changes at most its own field, a getter and
\* WebConfig() change no field, and so the username, the server name and
\* the client handle stay the ones New returned.
C10_Frame ==
    [][/\ call'.op = "SetType" => OnlyChanges("serverType")
       /\ call'.op = "SetCPU" => OnlyChanges("cpu")
       /\ call'.op = "SetRAM" => OnlyChanges("ram")
       /\ call'.op = "SetDisk" => OnlyChanges("disk")
       /\ call'.op = "SetIP" => OnlyChanges("ip")
       /\ call'.op = "SetInternalPort" => OnlyChanges("internalPort")
       /\ call'.op = "SetExternalPort" => OnlyChanges("externalPort")
       /\ call'.op = "SetProtocol" => OnlyChanges("protocol")
       /\ call'.op \in Getters \cup {"WebConfig"} => cfg' = cfg
       /\ GetUsername(cfg') = GetUsername(local[1])
       /\ GetServerName(cfg') = GetServerName(local[1])
       /\ GetKubeConfig(cfg') = GetKubeConfig(local[1])]_vars

\* a SetCPU that stored its value on a configuration whose other fields
\* had all been set
C10_Witness ==
    /\ call.op = "SetCPU" /\ call.ok
    /\ cfg.serverType # <<>>
    /\ cfg.ram # ZeroQuantity /\ cfg.disk # ZeroQuantity /\ cfg.ram # cfg.disk
    /\ cfg.ip # "" /\ cfg.internalPort # 0 /\ cfg.externalPort # 0
    /\ cfg.protocol # ""

====
